---- MODULE Spec2Model ----
(***************************************************************************)
(* createFastContext (src/src/CreateFastContext.tsx): a store held in a    *)
(* ref, a subscriber registry held in a JavaScript Set, the operations     *)
(* get / set / subscribe / unsubscribe, the Provider that creates one      *)
(* store per mount, and the useStore hook that reads the store through a   *)
(* selector.                                                               *)
(*                                                                         *)
(* Objects have identity: the heap maps addresses to store objects, and    *)
(* store.current holds an address.  The registry is the insertion-ordered  *)
(* list of a JavaScript Set; forEach walks it live.  Subscriber callbacks  *)
(* are arbitrary code: once invoked, a callback may call get, set,         *)
(* subscribe or an unsubscribe handle of its own store, may throw, and     *)
(* returns.                                                                *)
(***************************************************************************)
EXTENDS Integers, Sequences, FiniteSets, TLC

\* ------------------------------------------------------------------ bounds
\* the set calls the callbacks may make, in all, during one set call of the
\* environment
MaxNested == 1

Fields == {"a", "b"}
Vals == {0, 1}
Inst == {1, 2}
Cb == {"c1", "c2"}
\* the callbacks whose bodies call the store; the others just return
Active == {"c1"}
Consumers == {"k1", "k2"}
CbId == Cb \cup Consumers
Selectors == {"a", "whole"}

None == "none"
\* createContext(null): no Provider encloses the caller
NoInst == 0
\* a Provider that has not been mounted has no store object yet
NoAddr == -1
\* the object passed to createFastContext(initialState)
initialState == 0

Obj == [Fields -> Vals]
\* the values createFastContext is called with
InitialValues == {[a |-> 0, b |-> 1]}
Patches == UNION {[S -> Vals] : S \in SUBSET Fields}
EmptyPatch == [f \in {} |-> 0]
Addr == 0..(Cardinality(Inst) + Cardinality(Consumers) + 1)

VARIABLES
  heap,         \* address -> store object, for the allocated addresses
  store,        \* store.current of each Provider instance (NoAddr: not mounted)
  subscribers,  \* subscribers.current of each instance, in insertion order
  called,       \* callbacks one of whose unsubscribe closures has been called
  stack,        \* the set calls in progress, innermost last
  budget,       \* nested set calls the callbacks may still make
  cons,         \* the consumer components calling useStore
  removed,      \* callbacks whose handle was called and not subscribed since
  everInvoked,  \* callbacks invoked so far
  setEver,      \* whether set has been called so far
  last          \* the operation that produced this state

vars == <<heap, store, subscribers, called, stack, budget,
          cons, removed, everInvoked, setEver, last>>

\* ------------------------------------------------------- pure operations

Min(S) == CHOOSE x \in S : \A y \in S : x <= y

Range(s) == {s[n] : n \in 1..Len(s)}

\* { ...store.current, ...value }
MergeReversed(v, p) == [f \in Fields |-> IF f \in DOMAIN v THEN v[f] ELSE p[f]]
MergeReplace(v, p) == [f \in Fields |-> IF f \in DOMAIN p THEN p[f] ELSE 0]
Merge(v, p) == [f \in Fields |-> IF f \in DOMAIN p THEN p[f] ELSE v[f]]

\* Set.prototype.add: an element already present keeps its place
SetAddDup(s, x) == Append(s, x)
SetAdd(s, x) == IF x \in Range(s) THEN s ELSE Append(s, x)

\* Set.prototype.delete
SetDeleteNone(s, x) == s
SetDeleteFirst(s, x) == IF Len(s) = 0 THEN s ELSE Tail(s)
SetDelete(s, x) == SelectSeq(s, LAMBDA y : y # x)

\* invocation counts: 0, 1, and 2 for more than once
Sat(n) == IF n = 0 THEN 1 ELSE 2

\* The shallow merge of patch p over value v, as the specification states
\* it: the object whose fields present in p have p's value and whose other
\* fields have v's value.
ShallowMerge(v, p) ==
  CHOOSE o \in Obj :
    /\ \A f \in DOMAIN p : o[f] = p[f]
    /\ \A f \in Fields \ DOMAIN p : o[f] = v[f]

ZeroObj == [f \in Fields |-> 0]

\* ------------------------------------------------------------ call stack

\* One set call in progress: the forEach position idx (entries already
\* passed) and the callback now running (cur).
\* The set call the environment made (the outermost one) also carries its
\* record: the value before it v0, the registry when the loop
\* began (start), the invocations its own loop made (inv), whether a callback
\* called set (nested) or changed the registry (mutated), the value the
\* patches applied so far should have produced (want, by ShallowMerge),
\* whether its own patch changed the value (wrote), the consumers already
\* awaiting a render, and the callbacks whose registration a callback
\* changed before the loop had invoked them (flipped): those not registered
\* when the loop began and subscribed during it, and those registered when it
\* began and unsubscribed during it before their turn; among them (back)
\* those whose change was undone, still before their turn.
NoFrame ==
  [inst |-> NoInst, idx |-> 0, cur |-> None,
   inv |-> [c \in CbId |-> 0], start |-> {}, nested |-> FALSE,
   mutated |-> FALSE, want |-> ZeroObj, v0 |-> ZeroObj, dirty0 |-> {},
   wrote |-> FALSE, flipped |-> {}, back |-> {}]

NewFrame(i, p, v0) ==
  IF stack = <<>>
  THEN [NoFrame EXCEPT !.inst = i, !.start = Range(subscribers[i]),
                       !.v0 = v0, !.want = ShallowMerge(v0, p),
                       !.wrote = (ShallowMerge(v0, p) # v0),
                       !.dirty0 = {c \in Consumers : cons[c].dirty}]
  ELSE [NoFrame EXCEPT !.inst = i]

Top == stack[Len(stack)]

Idle == stack = <<>>

InCallback == ~Idle /\ Top.cur # None

\* The caller of a store operation: the environment between set calls, or
\* the callback now running, which holds the API of the store notifying it.
CanCall(i) ==
  \/ Idle
  \/ InCallback /\ Top.inst = i

\* The record of the outermost set call after a callback made a call: a set
\* with patch q (isSet), or a change of the registry (isMut).
Called(stk, isSet, q, isMut) ==
  [n \in 1..Len(stk) |->
     [stk[n] EXCEPT !.nested = @ \/ (n = 1 /\ isSet),
                    !.want = IF n = 1 /\ isSet THEN ShallowMerge(@, q) ELSE @,
                    !.mutated = @ \/ (n = 1 /\ isMut)]]

\* The record of the outermost set call after a callback subscribed cb
\* (isAdd) or called an unsubscribe closure of cb, cb being registered or
\* not before the call (was).
Changed(stk, cb, isAdd, was) ==
  [n \in 1..Len(stk) |->
     IF n = 1 /\ stk[n].inv[cb] = 0
     THEN LET adds == isAdd /\ ~was
              dels == ~isAdd /\ was
              inStart == cb \in stk[n].start
          IN [stk[n] EXCEPT
                !.flipped = IF (adds /\ ~inStart) \/ (dels /\ inStart)
                            THEN @ \cup {cb} ELSE @,
                !.back = IF cb \in stk[n].flipped
                            /\ ((adds /\ inStart) \/ (dels /\ ~inStart))
                         THEN @ \cup {cb} ELSE @]
     ELSE stk[n]]

\* forEach walks the live list: deleting an entry already passed moves the
\* position back with it, so the next entry visited stays the same.
Reindex(stk, i, old, new) ==
  [n \in 1..Len(stk) |->
     IF stk[n].inst = i
     THEN [stk[n] EXCEPT !.idx =
             Cardinality({m \in 1..stk[n].idx :
                            m <= Len(old) /\ old[m] \in Range(new)})]
     ELSE stk[n]]

\* The operation that produced a state: its name (for a useStore that
\* throws, the error message), the store (for useStore: the enclosing
\* Provider) and the callback it concerns, whether that callback was
\* registered before it (was; for setThrow: whether the patch of the
\* outermost set call had changed the value and the callbacks had left the
\* registry alone), and one more fact (unsubscribe:
\* the closure had been called before; set, setReturn, setThrow: the call is
\* nested).
Ev(op, i, cb, was, flag) ==
  [op |-> op, inst |-> i, cb |-> cb, was |-> was, flag |-> flag]

\* --------------------------------------------------------------- the heap

LiveAddrs(st, cn) ==
  ({initialState} \cup {st[i] : i \in Inst}
     \cup {cn[c].rendered.v : c \in {k \in Consumers : cn[k].rendered.t = "ref"}})
  \ {NoAddr}

\* The objects a store can still read: an object only a consumer's rendered
\* value refers to keeps its address (its identity) and nothing else.
Collect(h, st) ==
  [a \in (({initialState} \cup {st[i] : i \in Inst}) \ {NoAddr}) \cap DOMAIN h |-> h[a]]

\* store.current = { ... }: a new object is allocated and the ref is pointed
\* at it.  The new object takes the lowest address nothing else refers to.
WriteTargetInPlace(i) == store[i]
WriteTarget(i) ==
  Min(Addr \ LiveAddrs([store EXCEPT ![i] = NoAddr], cons))

\* get: () => store.current
GetInitial(i) == heap[initialState]
Get(i) == heap[store[i]]

\* selector(store.get())
SelectWhole(sel, i) == [t |-> "ref", v |-> store[i]]
GetSnapshot(sel, i) ==
  IF sel = "whole" THEN [t |-> "ref", v |-> store[i]]
                   ELSE [t |-> "val", v |-> Get(i)[sel]]

NoValue == [t |-> "none", v |-> 0]

Unmounted == [mounted |-> FALSE, prov |-> NoInst, sel |-> None,
              rendered |-> NoValue, dirty |-> FALSE]

\* ---------------------------------------------------------------- Init

\* After createFastContext(initialState): the initial object exists, no
\* Provider is mounted, no consumer has rendered.
Init ==
  /\ heap \in [{initialState} -> InitialValues]
  /\ store = [i \in Inst |-> NoAddr]
  /\ subscribers = [i \in Inst |-> <<>>]
  /\ called = [i \in Inst |-> {}]
  /\ stack = <<>>
  /\ budget = MaxNested
  /\ cons = [c \in Consumers |-> Unmounted]
  /\ removed = [i \in Inst |-> {}]
  /\ everInvoked = {}
  /\ setEver = FALSE
  /\ last = Ev("init", NoInst, None, FALSE, FALSE)

\* ------------------------------------------------------------- Provider

\* Provider renders useStoreData: store = useRef(initialState),
\* subscribers = useRef(new Set())
MountProvider(i) ==
  /\ Idle
  /\ store[i] = NoAddr
  /\ store' = [store EXCEPT ![i] = initialState]
  /\ subscribers' = [subscribers EXCEPT ![i] = <<>>]
  /\ last' = Ev("mount", i, None, FALSE, FALSE)
  /\ UNCHANGED <<heap, called, stack, budget, cons, removed, everInvoked, setEver>>

\* ------------------------------------------------------------------ get

\* get reads and returns store.current; it writes nothing
DoGetFresh(i) ==
  /\ store[i] # NoAddr
  /\ CanCall(i)
  /\ LET target == WriteTarget(i)
         written == [a \in DOMAIN heap \cup {target} |->
                       IF a = target THEN Get(i) ELSE heap[a]]
         st == [store EXCEPT ![i] = target]
     IN /\ store' = st
        /\ heap' = Collect(written, st)
  /\ stack' = Called(stack, FALSE, EmptyPatch, FALSE)
  /\ last' = Ev("get", i, None, FALSE, FALSE)
  /\ UNCHANGED <<subscribers, called, budget, cons, removed,
                 everInvoked, setEver>>
DoGet(i) ==
  /\ store[i] # NoAddr
  /\ CanCall(i)
  /\ stack' = Called(stack, FALSE, EmptyPatch, FALSE)
  /\ last' = Ev("get", i, None, FALSE, FALSE)
  /\ UNCHANGED <<heap, store, subscribers, called, budget, cons, removed,
                 everInvoked, setEver>>

\* ------------------------------------------------------------------ set

\* set(value): the merge and the assignment to store.current, then the
\* forEach over subscribers.current begins (ForEach steps, below).
DoSet(i, p) ==
  /\ store[i] # NoAddr
  /\ CanCall(i)
  /\ Idle \/ budget > 0
  /\ LET v0 == Get(i)
         target == WriteTarget(i)
         written == [a \in DOMAIN heap \cup {target} |->
                       IF a = target THEN Merge(v0, p) ELSE heap[a]]
         st == [store EXCEPT ![i] = target]
     IN /\ store' = st
        /\ heap' = Collect(written, st)
        /\ stack' = Append(Called(stack, TRUE, p, FALSE), NewFrame(i, p, v0))
        /\ last' = Ev("set", i, None, FALSE, ~Idle)
  /\ budget' = IF Idle THEN MaxNested ELSE budget - 1
  /\ setEver' = TRUE
  /\ UNCHANGED <<subscribers, called, cons, removed, everInvoked>>

\* subscribers.current.forEach: the registry the loop of instance i walks,
\* whatever the merge changed
NotifyListIfChanged(i) ==
  IF ~Idle /\ Get(i) = stack[1].v0 THEN <<>> ELSE subscribers[i]
NotifyListSnapshot(i) ==
  SelectSeq(<<"c1", "c2", "k1", "k2">>, LAMBDA x : x \in stack[1].start)
NotifyList(i) == subscribers[i]

\* forEach moves on to the next entry
ForEachSkip(idx) == idx + 2
ForEachStay(idx) == idx
ForEachAdvance(idx) == idx + 1

\* What useSyncExternalStore's store-change handler decides for consumer c
\* when notified: a render is requested when the snapshot is no longer the
\* value it rendered (Object.is).
SnapshotChanged(c) ==
  GetSnapshot(cons[c].sel, cons[c].prov) # cons[c].rendered

\* forEach invokes the next entry
Invoke ==
  /\ ~Idle
  /\ Top.cur = None
  /\ Top.idx < Len(NotifyList(Top.inst))
  /\ LET cb == NotifyList(Top.inst)[Top.idx + 1]
         fr == [Top EXCEPT !.idx = ForEachAdvance(@),
                           !.inv[cb] = IF Len(stack) = 1 THEN Sat(@) ELSE @,
                           !.cur = IF cb \in Active THEN cb ELSE None]
     IN /\ stack' = [stack EXCEPT ![Len(stack)] = fr]
        /\ cons' = IF cb \in Consumers
                   THEN [cons EXCEPT ![cb].dirty = @ \/ SnapshotChanged(cb)]
                   ELSE cons
        /\ everInvoked' = everInvoked \cup {cb}
        /\ last' = Ev("invoke", Top.inst, cb, TRUE, FALSE)
  /\ UNCHANGED <<heap, store, subscribers, called, budget, removed, setEver>>

\* the running callback returns to the loop
CbReturn ==
  /\ InCallback
  /\ stack' = [stack EXCEPT ![Len(stack)].cur = None]
  /\ last' = Ev("cbReturn", Top.inst, Top.cur, FALSE, FALSE)
  /\ UNCHANGED <<heap, store, subscribers, called, budget, cons, removed,
                 everInvoked, setEver>>

\* the running callback throws: set has no try/catch, so the error leaves
\* every set call in progress
CbThrowRollback ==
  /\ InCallback
  /\ LET i == Top.inst
         target == WriteTarget(i)
         written == [a \in DOMAIN heap \cup {target} |->
                       IF a = target THEN stack[1].v0 ELSE heap[a]]
         st == [store EXCEPT ![i] = target]
     IN /\ store' = st
        /\ heap' = Collect(written, st)
  /\ stack' = <<>>
  /\ last' = Ev("setThrow", Top.inst, Top.cur,
                stack[1].wrote /\ ~stack[1].mutated, Len(stack) > 1)
  /\ UNCHANGED <<subscribers, called, budget, cons, removed,
                 everInvoked, setEver>>
CbThrow ==
  /\ InCallback
  /\ stack' = <<>>
  /\ last' = Ev("setThrow", Top.inst, Top.cur,
                stack[1].wrote /\ ~stack[1].mutated, Len(stack) > 1)
  /\ UNCHANGED <<heap, store, subscribers, called, budget, cons, removed,
                 everInvoked, setEver>>

\* forEach has passed the last entry: set returns.  Each forEach call has
\* its own position, so the loop of the calling set goes on where it was.
SetReturnSharedIndex ==
  /\ ~Idle
  /\ Top.cur = None
  /\ Top.idx >= Len(NotifyList(Top.inst))
  /\ stack' = [n \in 1..(Len(stack) - 1) |-> [stack[n] EXCEPT !.idx = Top.idx]]
  /\ last' = Ev("setReturn", Top.inst, None, FALSE, Len(stack) > 1)
  /\ UNCHANGED <<heap, store, subscribers, called, budget, cons, removed,
                 everInvoked, setEver>>
SetReturn ==
  /\ ~Idle
  /\ Top.cur = None
  /\ Top.idx >= Len(NotifyList(Top.inst))
  /\ stack' = SubSeq(stack, 1, Len(stack) - 1)
  /\ last' = Ev("setReturn", Top.inst, None, FALSE, Len(stack) > 1)
  /\ UNCHANGED <<heap, store, subscribers, called, budget, cons, removed,
                 everInvoked, setEver>>

\* ------------------------------------------------- subscribe / unsubscribe

\* callbacks subscribe itself calls: none
SubscribeCallsBack(cb) == {cb}
SubscribeCalls(cb) == {}

\* subscribe(callback): add, and return the closure that deletes callback
DoSubscribe(i, cb) ==
  /\ store[i] # NoAddr
  /\ CanCall(i)
  /\ subscribers' = [subscribers EXCEPT ![i] = SetAdd(@, cb)]
  /\ removed' = [removed EXCEPT ![i] = @ \ {cb}]
  /\ stack' = Changed(Called(stack, FALSE, EmptyPatch, TRUE),
                       cb, TRUE, cb \in Range(subscribers[i]))
  /\ everInvoked' = everInvoked \cup SubscribeCalls(cb)
  /\ last' = Ev("subscribe", i, cb, cb \in Range(subscribers[i]), FALSE)
  /\ UNCHANGED <<heap, store, called, budget, cons, setEver>>

\* The closures subscribe(cb) has returned, all () => subscribers.current
\* .delete(cb).  One that has been called before exists once cb is in
\* called; one never called exists while cb is registered (the closure of
\* the subscribe call that added it).
HandleExists(i, cb, again) ==
  IF again THEN cb \in called[i] ELSE cb \in Range(subscribers[i])

\* () => subscribers.current.delete(callback)
DoUnsubscribe(i, cb, again) ==
  /\ store[i] # NoAddr
  /\ HandleExists(i, cb, again)
  /\ CanCall(i)
  /\ LET new == SetDelete(subscribers[i], cb)
     IN /\ subscribers' = [subscribers EXCEPT ![i] = new]
        /\ stack' = Reindex(Changed(Called(stack, FALSE, EmptyPatch, TRUE),
                                     cb, FALSE, cb \in Range(subscribers[i])),
                             i, subscribers[i], new)
  /\ called' = [called EXCEPT ![i] = @ \cup {cb}]
  /\ removed' = [removed EXCEPT ![i] = @ \cup {cb}]
  /\ last' = Ev("unsubscribe", i, cb, cb \in Range(subscribers[i]), again)
  /\ UNCHANGED <<heap, store, budget, cons, everInvoked, setEver>>

\* ------------------------------------------------------------- useStore

\* useContext(StoreContext): the value of the enclosing Provider, or the
\* default of createContext(null)
ContextDefaultStore(pr) == IF pr = NoInst THEN Min(Inst) ELSE pr
ContextValue(pr) == IF pr # NoInst THEN pr ELSE NoInst

\* where consumer c stands in the tree: under its Provider, or under none
Place(c) == IF c = "k1" THEN 1 ELSE 2

\* First render of consumer c at a place enclosed by Provider pr (NoInst:
\* by none), with selector sel.  Without a store it throws; otherwise it
\* reads the snapshot and useSyncExternalStore subscribes its handler.
UseStore(c, pr, sel) ==
  /\ Idle
  /\ ~cons[c].mounted
  /\ IF pr = NoInst THEN TRUE ELSE store[pr] # NoAddr
  /\ LET ctx == ContextValue(pr)
     IN IF ctx = NoInst
        THEN /\ last' = Ev("Store not found!", pr, c, FALSE, FALSE)
             /\ UNCHANGED <<heap, store, subscribers, removed, cons>>
        ELSE /\ store[ctx] # NoAddr
             /\ LET cn == [cons EXCEPT ![c] =
                             [mounted |-> TRUE, prov |-> ctx, sel |-> sel,
                              rendered |-> GetSnapshot(sel, ctx),
                              dirty |-> FALSE]]
                IN cons' = cn
             /\ subscribers' = [subscribers EXCEPT ![ctx] = SetAdd(@, c)]
             /\ removed' = [removed EXCEPT ![ctx] = @ \ {c}]
             /\ last' = Ev("useStore", pr, c, FALSE, FALSE)
             /\ UNCHANGED <<heap, store>>
  /\ UNCHANGED <<called, stack, budget, everInvoked, setEver>>

\* The requested render of consumer c: useStore runs again and returns the
\* current snapshot.
Render(c) ==
  /\ Idle
  /\ cons[c].mounted
  /\ cons[c].dirty
  /\ LET cn == [cons EXCEPT ![c].rendered = GetSnapshot(cons[c].sel, cons[c].prov),
                            ![c].dirty = FALSE]
     IN cons' = cn
  /\ last' = Ev("render", cons[c].prov, c, TRUE, FALSE)
  /\ UNCHANGED <<heap, store, subscribers, called, stack, budget, removed,
                 everInvoked, setEver>>

\* Consumer c unmounts: useSyncExternalStore calls the unsubscribe closure.
Unmount(c) ==
  /\ Idle
  /\ cons[c].mounted
  /\ LET i == cons[c].prov
         cn == [cons EXCEPT ![c] = Unmounted]
     IN /\ subscribers' = [subscribers EXCEPT ![i] = SetDelete(@, c)]
        /\ removed' = [removed EXCEPT ![i] = @ \cup {c}]
        /\ cons' = cn
        /\ last' = Ev("unmount", i, c, TRUE, FALSE)
  /\ UNCHANGED <<heap, store, called, stack, budget, everInvoked, setEver>>

\* ----------------------------------------------------------------- Next

\* The core under arbitrary subscribers: one mounted Provider's store, whose
\* get / set / subscribe are called by the environment and, re-entrantly, by
\* the subscriber callbacks.
Stores == {1}

Next ==
  \/ \E i \in Stores : MountProvider(i)
  \/ \E i \in Stores : DoGet(i)
  \/ \E i \in Stores, p \in Patches : DoSet(i, p)
  \/ \E i \in Stores, cb \in Cb : DoSubscribe(i, cb)
  \/ \E i \in Stores, cb \in Cb, again \in BOOLEAN : DoUnsubscribe(i, cb, again)
  \/ Invoke
  \/ CbReturn
  \/ CbThrow
  \/ SetReturn

Spec == Init /\ [][Next]_vars

\* The program as exported: Providers of one context and the consumers that
\* call useStore under them.  The only subscribers are the handlers
\* useSyncExternalStore registers, and set is called by the consumers.
NextApp ==
  \/ \E i \in Inst : MountProvider(i)
  \/ \E i \in Inst, p \in Patches : DoSet(i, p)
  \/ Invoke
  \/ SetReturn
  \/ \E c \in Consumers : \E pr \in {Place(c), NoInst}, sel \in Selectors : UseStore(c, pr, sel)
  \/ \E c \in Consumers : Render(c)
  \/ \E c \in Consumers : Unmount(c)

AppSpec == Init /\ [][NextApp]_vars

\* forEach is a synchronous loop, so it goes on (Invoke, SetReturn), and a
\* callback that terminates returns after finitely many calls (CbReturn).
LiveSpec ==
  Spec /\ WF_vars(Invoke) /\ WF_vars(SetReturn) /\ WF_vars(CbReturn)

\* ------------------------------------------------------------- properties

\* the set call the environment made, while it is in progress
Outer == stack[1]

\* the step in which that set call returns to the environment
OuterReturns == Len(stack) = 1 /\ Top.cur = None /\ stack' = <<>>

\* its loop has passed every entry: the call is about to return
LoopDone ==
  /\ Len(stack) = 1
  /\ Top.cur = None
  /\ Top.idx >= Len(subscribers[Top.inst])

Registered(i) == Range(subscribers[i])

\* C1: when a set(p) call during which no callback called set returns, get()
\* is the shallow merge of p over the value v before the call: p's fields
\* have p's values, the other fields have the values they had in v.
C1_ShallowMerge ==
  [][(OuterReturns /\ ~Outer.nested) =>
       heap'[store'[Outer.inst]] = Outer.want]_vars

\* a set call without nested sets is about to return, having overwritten one
\* field (b: 1 -> 0) and preserved the other
C1_Witness ==
  /\ LoopDone
  /\ ~Outer.nested
  /\ Outer.v0 = [a |-> 0, b |-> 1]
  /\ Get(Outer.inst) = [a |-> 0, b |-> 0]

\* C2: when a set call returns during which no callback called set,
\* subscribe or an unsubscribe closure, its loop has invoked each of the N
\* callbacks registered when it began exactly once, and no other callback.
C2_EachOnce ==
  [][(OuterReturns /\ ~Outer.nested /\ ~Outer.mutated) =>
       \A cb \in CbId :
         Outer.inv[cb] = IF cb \in Outer.start THEN 1 ELSE 0]_vars

\* both callbacks were registered, the loop has run them and is about to return
C2_Witness ==
  /\ LoopDone
  /\ ~Outer.nested /\ ~Outer.mutated
  /\ Outer.start = Cb
  /\ \A cb \in Cb : Outer.inv[cb] = 1

\* C3: once an unsubscribe closure of cb has been called and cb has not been
\* subscribed again, no set call invokes cb; the call of the closure leaves
\* every other registered callback registered, and a later set call (whose
\* callbacks leave the registry alone) still invokes each of them.
C3_Unsubscribed ==
  [][/\ last'.op = "invoke" => last'.cb \notin removed[last'.inst]
     /\ last'.op = "unsubscribe" =>
          \A x \in Registered(last'.inst) \ {last'.cb} :
            x \in Range(subscribers'[last'.inst])
     /\ (OuterReturns /\ ~Outer.mutated) =>
          /\ \A x \in Registered(Outer.inst) : Outer.inv[x] >= 1
          /\ \A x \in removed[Outer.inst] : Outer.inv[x] = 0]_vars

\* c1 was unsubscribed, and a later set call has invoked c2 and not c1
C3_Witness ==
  /\ LoopDone
  /\ ~Outer.mutated
  /\ "c1" \in removed[Outer.inst]
  /\ Outer.inv["c1"] = 0
  /\ Outer.inv["c2"] = 1

\* C4 as stated: calling an unsubscribe closure that has been called before
\* leaves the registry as it was.
C4_SecondCallNoOp ==
  [][(last'.op = "unsubscribe" /\ last'.flag) => subscribers' = subscribers]_vars

\* C4 amended: an unsubscribe closure removes its callback's registration, if
\* there is one, and nothing else, every time it is called: it is a no-op
\* exactly when its callback is not registered (as right after a first call),
\* and a closure called before removes a registration made since.
C4_RemovesItsCallback ==
  [][last'.op = "unsubscribe" =>
       LET i == last'.inst
           cb == last'.cb
       IN /\ \A j \in Inst \ {i} : subscribers'[j] = subscribers[j]
          /\ Range(subscribers'[i]) = Registered(i) \ {cb}
          /\ Len(subscribers'[i]) = Cardinality(Registered(i) \ {cb})
          /\ cb \notin Registered(i) => subscribers' = subscribers
          /\ (last'.flag /\ cb \in Registered(i)) => subscribers' # subscribers]_vars

\* a closure called before has been called again while its callback was not
\* registered, the other callback staying registered
C4_Witness ==
  /\ last.op = "unsubscribe"
  /\ last.flag
  /\ ~last.was
  /\ Registered(last.inst) # {}

\* C5: callbacks are invoked by the loop of set only: as long as set has not
\* been called no callback has been invoked, and get, subscribe and the
\* unsubscribe closures invoke none.
C5_OnlySetInvokes ==
  /\ [](~setEver => everInvoked = {})
  /\ [][last'.op \in {"get", "subscribe", "unsubscribe"} =>
          /\ everInvoked' = everInvoked
          /\ \A n \in 1..Len(stack) :
               /\ stack'[n].inv = stack[n].inv
               /\ stack'[n].cur = stack[n].cur]_vars

\* callbacks were subscribed, one unsubscribed and the value read, with no
\* set call so far
C5_Witness ==
  /\ ~setEver
  /\ last.op = "get"
  /\ Registered(last.inst) # {}
  /\ called[last.inst] # {}

\* C7: every set call notifies, whatever its patch: when a set call returns
\* (its callbacks having left the registry alone), every callback registered
\* when it began has been invoked, also when the patch was empty or changed
\* no field.
C7_AlwaysNotifies ==
  [][(OuterReturns /\ ~Outer.mutated) =>
       \A cb \in Outer.start : Outer.inv[cb] >= 1]_vars

\* a set call that changed nothing has invoked both callbacks
C7_Witness ==
  /\ LoopDone
  /\ ~Outer.nested /\ ~Outer.mutated
  /\ Outer.want = Outer.v0
  /\ Get(Outer.inst) = Outer.v0
  /\ Outer.start = Cb
  /\ \A cb \in Cb : Outer.inv[cb] >= 1

\* selector(store.get()) for consumer c, as the specification states it:
\* the selected field, or for the identity selector the store object itself
Derived(c) ==
  IF cons[c].sel = "whole" THEN store[cons[c].prov]
                           ELSE heap[store[cons[c].prov]][cons[c].sel]

\* C6: a set call on store A changes neither the object nor the value of
\* another store B, does not change the initial object later Providers start
\* from, and its loop invokes no callback registered on B only.
C6_Isolation ==
  /\ [](heap[initialState] \in InitialValues)
  /\ [][last'.op \in {"set", "invoke", "setReturn"} =>
          \A B \in Inst \ {last'.inst} :
            /\ store'[B] = store[B]
            /\ store[B] # NoAddr => heap'[store'[B]] = heap[store[B]]
            /\ heap'[initialState] = heap[initialState]
            /\ last'.op = "invoke" =>
                 ~(last'.cb \in Registered(B) /\ last'.cb \notin Registered(last'.inst))]_vars

\* store 1 was set and notified its consumer; store 2, still on the initial
\* object, kept its value and its consumer was not notified
C6_Witness ==
  /\ last.op = "setReturn"
  /\ last.inst = 1
  /\ store[2] = initialState
  /\ store[1] # initialState
  /\ Get(1) # Get(2)
  /\ cons["k1"].mounted /\ cons["k1"].dirty
  /\ cons["k2"].mounted /\ ~cons["k2"].dirty

\* C8: when a set call returns, a consumer of that store that was not
\* awaiting a render is asked to render exactly when selector(get()) is no
\* longer the value it rendered: not when the set changed only fields its
\* selector does not read, and always when the set changed the selected
\* field or, for the identity selector, replaced the store object.
C8_RerenderOnChange ==
  [][OuterReturns =>
       \A c \in Consumers :
         (cons[c].mounted /\ cons[c].prov = Outer.inst /\ c \notin Outer.dirty0) =>
           /\ cons'[c].dirty <=> (Derived(c) # cons[c].rendered.v)
           /\ (cons[c].sel \in Fields /\ Outer.want[cons[c].sel] = Outer.v0[cons[c].sel])
                => ~cons'[c].dirty
           /\ (cons[c].sel \in Fields /\ Outer.want[cons[c].sel] # Outer.v0[cons[c].sel])
                => cons'[c].dirty
           /\ cons[c].sel = "whole" => cons'[c].dirty]_vars

\* a set call changed field b only, and the consumer selecting field a was
\* notified and not asked to render
C8_Witness ==
  /\ LoopDone
  /\ cons["k1"].mounted
  /\ cons["k1"].prov = Outer.inst
  /\ cons["k1"].sel = "a"
  /\ "k1" \notin Outer.dirty0
  /\ Outer.inv["k1"] = 1
  /\ Outer.want # Outer.v0
  /\ Outer.want["a"] = Outer.v0["a"]
  /\ ~cons["k1"].dirty

\* C9: useStore called where no Provider encloses the caller throws
\* "Store not found!": the consumer gets no value and no setter, no callback
\* is subscribed and no store is read or changed.
C9_NoProviderThrows ==
  /\ [](\A c \in Consumers :
          cons[c].mounted => cons[c].prov \in Inst /\ store[cons[c].prov] # NoAddr)
  /\ [][(last'.op \in {"useStore", "Store not found!"} /\ last'.inst = NoInst) =>
          /\ last'.op = "Store not found!"
          /\ UNCHANGED <<heap, store, subscribers, cons, stack, removed>>]_vars

\* a Provider is mounted, and useStore called outside it has thrown
C9_Witness ==
  /\ last.op = "Store not found!"
  /\ last.inst = NoInst
  /\ \E i \in Inst : store[i] # NoAddr
  /\ ~cons[last.cb].mounted

\* the set call in progress has returned, or a callback changed the registry
ReturnedOrMutated == IF Idle THEN TRUE ELSE Outer.mutated

\* C10: a set call whose callbacks call set (a bounded number of times in
\* all) and leave the registry alone returns: the set calls in progress are
\* never more than one plus the nested calls made, and the loop ends.
C10_ReentrantSetReturns ==
  /\ [](Len(stack) <= 1 + (MaxNested - budget))
  /\ (~Idle ~> ReturnedOrMutated)

\* a callback called set from inside the loop, the nested call returned and
\* the outer loop has gone on to its end
C10_Witness ==
  /\ LoopDone
  /\ Outer.nested
  /\ ~Outer.mutated
  /\ Outer.start = Cb

\* C11: when a set call returns during which a callback called set (and no
\* callback changed the registry), its own loop has invoked each callback
\* registered when it began exactly once and no other; the invocations the
\* nested call's loop made are not counted among them.
C11_OuterLoopEachOnce ==
  [][(OuterReturns /\ Outer.nested /\ ~Outer.mutated) =>
       \A cb \in CbId :
         Outer.inv[cb] = IF cb \in Outer.start THEN 1 ELSE 0]_vars

\* c1, registered first, called set from inside its callback; the nested
\* loop ran, and the outer loop has then gone on to c2 and is about to return
C11_Witness ==
  /\ LoopDone
  /\ Outer.nested
  /\ ~Outer.mutated
  /\ subscribers[Outer.inst] = <<"c1", "c2">>
  /\ Outer.start = Cb
  /\ Outer.inv["c1"] = 1
  /\ Outer.inv["c2"] = 1

\* C12 as stated: when a set call returns, every callback registered when its
\* loop began has been invoked, whatever the callbacks did to the registry
\* meanwhile (stated for the set calls during which no callback called set,
\* where the invocations of the loop are all the invocations there are).
C12_AllStartNotified ==
  [][(OuterReturns /\ ~Outer.nested) =>
       \A cb \in Outer.start : Outer.inv[cb] >= 1]_vars

\* C13 as stated: within the loop of one set call during which no callback
\* calls set, no callback is invoked more than once, whatever subscribe and
\* unsubscribe calls the callbacks make.
C13_NoDoubleInvoke ==
  Idle \/ Outer.nested \/ \A cb \in CbId : Outer.inv[cb] <= 1

\* the set call in progress has returned, or a callback called set
ReturnedOrNested == IF Idle THEN TRUE ELSE Outer.nested

\* C14 as stated: a set call whose callbacks each return and never call set
\* returns (or ends by a throw) after finitely many invocations, also when
\* the callbacks subscribe and unsubscribe during the loop.
C14_SetAlwaysReturns == ~Idle ~> ReturnedOrNested

\* C15: the merge comes before the notification: all through the loop of a
\* set(p) call (no callback having called set), so in every callback it
\* invokes, get() returns the value with p merged over the value before the
\* call, never that earlier value or a part of the merge.
C15_MergedBeforeNotified ==
  (~Idle /\ ~Outer.nested) => Get(Outer.inst) = Outer.want

\* a callback invoked by a set call that changed the value has called get()
\* and got the merged value
C15_Witness ==
  /\ InCallback
  /\ last.op = "get"
  /\ ~Outer.nested
  /\ Outer.want # Outer.v0
  /\ Get(Outer.inst) = Outer.want
  /\ Get(Outer.inst) # Outer.v0

\* C16: the store changes only through set: get, subscribe and the
\* unsubscribe closures leave store.current the same object with the same
\* contents, so get() returns what it returned before, and get leaves the
\* registry as it was.
C16_OnlySetWrites ==
  [][last'.op \in {"get", "subscribe", "unsubscribe"} =>
       /\ store' = store
       /\ heap' = heap
       /\ \A i \in Inst : i = last'.inst => Get(i)' = Get(i)
       /\ last'.op = "get" => subscribers' = subscribers]_vars

\* after a set call changed the value, a callback was subscribed, one
\* unsubscribed, and get() called: the value is still the one set wrote
C16_Witness ==
  /\ Idle
  /\ last.op = "get"
  /\ store[last.inst] # initialState
  /\ Get(last.inst) # heap[initialState]
  /\ Registered(last.inst) # {}
  /\ removed[last.inst] # {}

\* C17: the registry holds no callback twice: subscribing a callback that is
\* registered leaves the registry as it was, so when a set call returns on a
\* store none of whose unsubscribe closures was ever called (no callback
\* calling set), each registered callback has been invoked exactly once,
\* however many times it was subscribed.
C17_NoDuplicates ==
  /\ [](\A i \in Inst : Len(subscribers[i]) = Cardinality(Registered(i)))
  /\ [][(last'.op = "subscribe" /\ last'.was) => subscribers' = subscribers]_vars
  /\ [][(OuterReturns /\ ~Outer.nested /\ called[Outer.inst] = {}) =>
          \A cb \in CbId :
            Outer.inv[cb] = IF cb \in Registered(Outer.inst) THEN 1 ELSE 0]_vars

\* both callbacks were registered when the loop began, no unsubscribe closure
\* was ever called, a callback subscribed a registered callback again during
\* the loop, and the loop has invoked each callback once
C17_Witness ==
  /\ LoopDone
  /\ ~Outer.nested
  /\ Outer.mutated
  /\ called[Outer.inst] = {}
  /\ Outer.start = Cb
  /\ Len(subscribers[Outer.inst]) = 2
  /\ \A cb \in Cb : Outer.inv[cb] = 1

\* C18: nested writes win.  Once a callback notified by set(p) on value v has
\* called set(q), get() is v merged with p and then with q, q's fields over
\* p's: so it is for every callback the loops invoke from then on, and so it
\* is when the outer set(p) returns.
C18_NestedWritesWin ==
  /\ []((~Idle /\ Outer.nested) => Get(Outer.inst) = Outer.want)
  /\ [][(OuterReturns /\ Outer.nested) =>
          heap'[store'[Outer.inst]] = Outer.want]_vars

\* set(p) changed the value; c1, notified first, called set(q), which wrote
\* the changed field back; the outer loop then invoked c2 and is about to
\* return with q's value
C18_Witness ==
  /\ LoopDone
  /\ Outer.nested
  /\ Outer.wrote
  /\ subscribers[Outer.inst] = <<"c1", "c2">>
  /\ Outer.inv["c2"] = 1
  /\ Get(Outer.inst) = Outer.want
  /\ Get(Outer.inst) = Outer.v0

\* C19 as stated: when a set call returns, every callback first subscribed
\* during its loop has been invoked by that loop, and no callback registered
\* when the loop began and unsubscribed during it before its turn has.
C19_LiveIteration ==
  [][OuterReturns =>
       /\ \A cb \in Outer.flipped \ Outer.start : Outer.inv[cb] >= 1
       /\ \A cb \in Outer.flipped \cap Outer.start : Outer.inv[cb] = 0]_vars

\* C19 amended: the loop walks the registry as it is at each step.  It only
\* invokes callbacks registered at the moment of the invocation; when the set
\* call returns, a callback first subscribed during the loop has been invoked
\* by it unless it was unsubscribed again before its turn, and a callback
\* registered when the loop began and unsubscribed before its turn has not
\* been invoked by it unless it was subscribed again during the loop.
C19_LiveRegistry ==
  [][/\ last'.op = "invoke" => last'.cb \in Registered(last'.inst)
     /\ OuterReturns =>
          /\ \A cb \in (Outer.flipped \ Outer.back) \ Outer.start :
               Outer.inv[cb] >= 1
          /\ \A cb \in (Outer.flipped \ Outer.back) \cap Outer.start :
               Outer.inv[cb] = 0]_vars

\* c1, invoked by the loop, subscribed c2, which was not registered when the
\* loop began; the same loop has then invoked c2 and is about to return
C19_Witness ==
  /\ LoopDone
  /\ Outer.start = {"c1"}
  /\ Outer.flipped = {"c2"}
  /\ Outer.back = {}
  /\ Outer.inv["c1"] = 1
  /\ Outer.inv["c2"] = 1

\* the registry entries the loop of the outermost set call has not reached
NotReached ==
  {subscribers[Outer.inst][n] : n \in (Outer.idx + 1)..Len(subscribers[Outer.inst])}

\* C20: when a callback throws during set(p), every set call in progress ends
\* there (the error reaches the caller of set), store.current stays the
\* merged object, so get() still reflects p, the registry is as it was, and
\* (the callbacks having left the registry alone) the loop has invoked none
\* of the callbacks registered after the one it had reached, nor does it go
\* on to them.
C20_ThrowKeepsMerge ==
  [][last'.op = "setThrow" =>
       /\ stack' = <<>>
       /\ store' = store
       /\ heap' = heap
       /\ heap'[store'[Outer.inst]] = Outer.want
       /\ subscribers' = subscribers
       /\ everInvoked' = everInvoked
       /\ ~Outer.mutated => \A cb \in NotReached : Outer.inv[cb] = 0]_vars

\* c1, registered before c2, threw during a set call that had changed the
\* value (no callback having changed the registry): the value is still the
\* changed one, both are still registered, and c2 has never been invoked
C20_Witness ==
  /\ last.op = "setThrow"
  /\ last.was
  /\ ~last.flag
  /\ Idle
  /\ subscribers[last.inst] = <<"c1", "c2">>
  /\ Get(last.inst) # heap[initialState]
  /\ "c2" \notin everInvoked

====
